---- MODULE Spec2Model ----
(***************************************************************************)
(* Streaming event-protocol client of the center console (CenterClient):   *)
(* runAnalyze and runExport each open one chunked HTTP response, cut it    *)
(* into frames at blank lines, dispatch the data lines of each frame and   *)
(* fold the events into the shared React state (logs, response,            *)
(* finalLinks, error, analyzing, exporting, streamingReceivedRef).         *)
(*                                                                         *)
(* Wire text is a sequence of symbols: "\n", " ", the markers ":" and      *)
(* "data:", and one symbol per JSON text or other run of characters.       *)
(* A chunk is any non-empty run of symbols, so a chunk may end inside a    *)
(* line or between the two "\n" of a delimiter.                            *)
(*                                                                         *)
(* JavaScript runs each callback to completion: the code between two       *)
(* awaits is atomic.  The loop over the frames and lines of one chunk is   *)
(* modelled one line per step, pc[p] = "parts" marking the callback that   *)
(* is running; no other action is enabled until it has left that state.    *)
(***************************************************************************)
EXTENDS Naturals, Sequences, FiniteSets

VARIABLES
  centerId,      \* decodedCenterId (prop of the component)
  ocrFiles,      \* useState<File[]>
  logs,          \* useState<string[]>
  response,      \* useState<OrderResponse | null>
  finalLinks,    \* useState<FinalLink[]>
  error,         \* useState<string | null>
  analyzing,     \* useState(false)
  exporting,     \* useState(false)
  streamingReceivedRef,  \* useRef<boolean>(false), one per component
  pc,            \* position of each async function: idle, fetch, text, read, parts
  wire,          \* text of the response body the reader has not yet returned
  buf,           \* let buf
  parts,         \* frames of the current chunk still to be looped over
  lines,         \* lines of the current frame still to be looped over
  finished,      \* let finished
  stream,        \* history: the whole body text of the running session
  dispatched,    \* history: the payloads the running session has dispatched
  exports        \* history: export requests since analyze last reset the logs

vars == <<centerId, ocrFiles, logs, response, finalLinks, error, analyzing,
          exporting, streamingReceivedRef, pc, wire, buf, parts, lines,
          finished, stream, dispatched, exports>>

uiVars == <<logs, response, finalLinks, error, analyzing, exporting>>
sessVars == <<pc, wire, buf, parts, lines, finished, stream, dispatched>>

Phases == {"A", "E"}

(***************************************************************************)
(* Bounds of the model.                                                    *)
(***************************************************************************)
MaxFrames == 2
MaxExport == 1
MaxFiles == 1

(***************************************************************************)
(* JSON values: t is the type tag, s the text of a string or number, o the *)
(* fields of an object.  null is the null of React state as well.          *)
(***************************************************************************)
JNull == [t |-> "null", s |-> "", o |-> <<>>]
JUndefined == [t |-> "undefined", s |-> "", o |-> <<>>]
JStr(x) == [t |-> "str", s |-> x, o |-> <<>>]
JNum(x) == [t |-> "num", s |-> x, o |-> <<>>]
\* the empty array []
JArr == [t |-> "arr", s |-> "", o |-> <<>>]
JObj(f) == [t |-> "obj", s |-> "", o |-> f]

NoError == "<null>"

\* typeof data === "object" && data !== null
IsObject(data) == data.t \in {"obj", "arr"}

\* data.<field> used as a condition: present and a non-empty string
Truthy(data, field) == field \in DOMAIN data.o /\ data.o[field] # ""

NL == "\n"
SP == " "
Colon == ":"
DataMarker == "data:"

(***************************************************************************)
(* The JSON texts the backend sends, each one symbol of the wire text, and *)
(* what JSON.parse makes of them.                                          *)
(***************************************************************************)
TxtDbg == "{\"event\":\"dbg\",\"data\":\"step1\"}"
TxtDone == "{\"event\":\"done\",\"data\":null}"
TxtProgress == "{\"event\":\"progress\",\"data\":\"p\"}"
TxtResA == "{\"event\":\"result\",\"data\":{\"a\":\"1\"}}"
TxtResB == "{\"event\":\"result\",\"data\":{\"b\":\"2\"}}"
TxtResOrder == "{\"event\":\"result\",\"data\":{\"center_name\":\"n\",\"maker_cds\":{\"m\":[\"c\"]},\"ocr_snapshot_url\":\"u1\",\"debug_logs\":[\"l1\",\"l2\"]}}"
TxtResExport == "{\"event\":\"result\",\"data\":{\"output_spreadsheet_url\":\"u2\",\"debug_logs\":[\"l3\"]}}"
TxtTail == "{\"event\":\"dbg\",\"data\":\"tail\"}"
TxtResX == "{\"event\":\"result\",\"data\":{\"x\":1}}"
TxtResArr == "{\"event\":\"result\",\"data\":[]}"
TxtResStr == "{\"event\":\"result\",\"data\":\"s\"}"
TxtResNull == "{\"event\":\"result\",\"data\":null}"
TxtNotJson == "{not json}"
TxtKeepAlive == "keep-alive"

ObjX == [x |-> 1]
ObjA == [a |-> "1"]
ObjB == [b |-> "2"]
ObjOrder == [center_name |-> "n", maker_cds |-> [m |-> <<"c">>],
             ocr_snapshot_url |-> "u1", debug_logs |-> <<"l1", "l2">>]
\* a result none of whose per-maker code lists has an element
ObjNoCodes == [center_name |-> "n", maker_cds |-> [m |-> <<>>]]
ObjExport == [output_spreadsheet_url |-> "u2", debug_logs |-> <<"l3">>]

JsonTexts == {TxtTail, TxtDbg, TxtDone, TxtProgress, TxtResA, TxtResB, TxtResOrder,
              TxtResExport, TxtResX, TxtResArr, TxtResStr, TxtResNull}

\* JSON.parse(payloadRaw) of a text that parses: the envelope {event, data}
JSONParse(txt) ==
  CASE txt = TxtDbg -> [event |-> "dbg", data |-> JStr("step1")]
    [] txt = TxtTail -> [event |-> "dbg", data |-> JStr("tail")]
    [] txt = TxtDone -> [event |-> "done", data |-> JNull]
    [] txt = TxtProgress -> [event |-> "progress", data |-> JStr("p")]
    [] txt = TxtResA -> [event |-> "result", data |-> JObj(ObjA)]
    [] txt = TxtResB -> [event |-> "result", data |-> JObj(ObjB)]
    [] txt = TxtResOrder -> [event |-> "result", data |-> JObj(ObjOrder)]
    [] txt = TxtResExport -> [event |-> "result", data |-> JObj(ObjExport)]
    [] txt = TxtResX -> [event |-> "result", data |-> JObj(ObjX)]
    [] txt = TxtResArr -> [event |-> "result", data |-> JArr]
    [] txt = TxtResStr -> [event |-> "result", data |-> JStr("s")]
    [] txt = TxtResNull -> [event |-> "result", data |-> JNull]

\* JSON.parse throws on anything that is not one complete JSON text
Parses(payloadRaw) == Len(payloadRaw) = 1 /\ payloadRaw[1] \in JsonTexts

(***************************************************************************)
(* Text operations of the decode loop.                                     *)
(***************************************************************************)
RECURSIVE SplitAt(_, _, _)
\* s.split(sep) for a separator of n "\n": the pieces left to right, the
\* last one being the text after the last separator (always >= 1 piece)
SplitAt(s, n, cur) ==
  IF s = <<>> THEN <<cur>>
  ELSE IF Len(s) >= n /\ \A i \in 1..n : s[i] = NL
       THEN <<cur>> \o SplitAt(SubSeq(s, n + 1, Len(s)), n, <<>>)
       ELSE SplitAt(Tail(s), n, Append(cur, Head(s)))

\* buf.split("\n\n")
SplitFrames(s) == SplitAt(s, 2, <<>>)

RECURSIVE TrimLeft(_)
TrimLeft(l) == IF l # <<>> /\ Head(l) = SP THEN TrimLeft(Tail(l)) ELSE l

RECURSIVE TrimRight(_)
TrimRight(l) ==
  IF l # <<>> /\ l[Len(l)] = SP THEN TrimRight(SubSeq(l, 1, Len(l) - 1)) ELSE l

\* String.prototype.trim
Trim(l) == TrimRight(TrimLeft(l))

\* part.split(/\n/).map((l) => l.trim())
LinesOf(part) ==
  LET ls == SplitAt(part, 1, <<>>) IN [i \in 1..Len(ls) |-> Trim(ls[i])]

StartsWith(l, marker) == l # <<>> /\ Head(l) = marker

\* line.slice("data:".length).trim()
PayloadRaw(line) == Trim(Tail(line))

IsDataLine(line) == ~StartsWith(line, Colon) /\ StartsWith(line, DataMarker)

\* the event kind a payload is dispatched as; "raw" when JSON.parse throws
RawKind(payloadRaw) ==
  IF ~Parses(payloadRaw) THEN "raw" ELSE JSONParse(payloadRaw[1]).event

RawData(payloadRaw) == JSONParse(payloadRaw[1]).data

KindOf(line) == RawKind(PayloadRaw(line))
DataOf(line) == RawData(PayloadRaw(line))

(***************************************************************************)
(* Log lines.  pushLog prefixes the wall-clock time, which the model keeps *)
(* as the flag stamp; text is the message as the pieces it is built from.  *)
(***************************************************************************)
Stamped(text) == [stamp |-> TRUE, text |-> text]
Plain(text) == [stamp |-> FALSE, text |-> text]

\* String(data)
StringOf(data) ==
  CASE data.t = "str" -> data.s
    [] data.t = "num" -> data.s
    [] data.t = "null" -> "null"
    [] data.t = "undefined" -> "undefined"
    [] data.t = "arr" -> ""
    [] data.t = "obj" -> "[object Object]"

\* JSON.stringify(data) for the payloads generic events carry
Stringify(data) ==
  CASE data.t = "str" -> <<"\"", data.s, "\"">>
    [] data.t = "num" -> <<data.s>>
    [] data.t = "null" -> <<"null">>
    [] data.t = "undefined" -> <<"undefined">>
    [] data.t = "arr" -> <<"[]">>
    [] data.t = "obj" -> <<"{", "}">>

LogStartAnalyze == Stamped(<<"analyze started">>)
LogStartExport == Stamped(<<"export started">>)
LogDoneAnalyze == Stamped(<<"backend processing completed">>)
LogDoneExport == Stamped(<<"spreadsheet generation completed">>)
LogErrAnalyze == Stamped(<<"an error occurred">>)
LogErrExport == Stamped(<<"an error occurred during spreadsheet generation">>)
LogBE(s) == Stamped(<<"[BE] ", s>>)
LogRaw(payloadRaw) == Stamped(<<"[BE] ">> \o payloadRaw)
LogGeneric(ev, data) == Stamped(<<"[BE:", ev, "] ">> \o Stringify(data))

ErrNoCenter == "center id is not specified"
ErrNoFiles == "select the files to OCR"
ErrNoResult == "there is no analysis result"
ErrStatus == "500 Internal Server Error - body"
ErrNoStream == "the response stream could not be obtained"
ErrNetwork == "Failed to fetch"

NameOcr == "OCR result spreadsheet"
NameOutput == "per-maker request spreadsheets"

(***************************************************************************)
(* Response bodies: up to MaxFrames frames, each closed by a blank line.   *)
(***************************************************************************)
DataFrame(txt) == <<DataMarker, SP, txt>>
KeepAliveFrame == <<Colon, SP, TxtKeepAlive>>

\* a keep-alive comment line and a data line in one frame
CommentedFrame(txt) == KeepAliveFrame \o <<NL>> \o DataFrame(txt)
\* two data lines in one frame
TwoDataFrame(txt1, txt2) == DataFrame(txt1) \o <<NL>> \o DataFrame(txt2)

\* the frames of the single-session specification
StreamFrames ==
  {KeepAliveFrame, DataFrame(TxtDbg), DataFrame(TxtDone),
   DataFrame(TxtNotJson), DataFrame(TxtProgress),
   TwoDataFrame(TxtDbg, TxtProgress),
   DataFrame(TxtResArr), DataFrame(TxtResStr), DataFrame(TxtResNull)}
AnalyzeStreamFrames ==
  StreamFrames \cup {DataFrame(TxtResOrder), DataFrame(TxtResA),
                     DataFrame(TxtResB)}
ExportStreamFrames == StreamFrames \cup {DataFrame(TxtResExport)}

RECURSIVE WireText(_)
WireText(fs) ==
  IF fs = <<>> THEN <<>> ELSE Head(fs) \o <<NL, NL>> \o WireText(Tail(fs))

\* every body of at most MaxFrames frames
Bodies(F) == {WireText(fs) : fs \in UNION {[1..k -> F] : k \in 0..MaxFrames}}

\* text after the last blank line: a whole data line, with or without its
\* line end
Tails == {DataFrame(TxtTail), DataFrame(TxtTail) \o <<NL>>}

\* the bodies of fewer than MaxFrames frames that end in such a text
Dangling(F) ==
  {WireText(fs) \o tl :
     fs \in UNION {[1..k -> F] : k \in 0..(MaxFrames - 1)}, tl \in Tails}

\* dbg "step1", result {x:1}, done: three frames
ScenarioA ==
  WireText(<<DataFrame(TxtDbg), DataFrame(TxtResX), DataFrame(TxtDone)>>)

\* the bodies of the whole-system specification: a streamed analysis, a
\* silent one whose result carries the backend lines, and one that ends
\* without a result; a silent export and a streamed one without "done"
AnalyzeBodies ==
  {WireText(<<CommentedFrame(TxtDbg), DataFrame(TxtResOrder),
              DataFrame(TxtDone)>>),
   WireText(<<DataFrame(TxtResOrder), DataFrame(TxtDone)>>),
   WireText(<<TwoDataFrame(TxtNotJson, TxtProgress)>>)}
ExportBodies ==
  {WireText(<<DataFrame(TxtResExport), DataFrame(TxtDone)>>),
   WireText(<<DataFrame(TxtDbg), DataFrame(TxtResExport)>>)}

(***************************************************************************)
(* Shared helpers of the two async functions.                              *)
(***************************************************************************)
\* no callback is in the middle of a chunk
Quiescent == \A p \in Phases : pc[p] # "parts"

\* setAnalyzing / setExporting
SetBusy(p, v) ==
  /\ analyzing' = IF p = "A" THEN v ELSE analyzing
  /\ exporting' = IF p = "E" THEN v ELSE exporting

\* the lines still to loop over after this line: the rest of the frame, or
\* the lines of the next frame of the chunk
SetCursor(p, rest) ==
  IF rest = <<>> /\ parts[p] # <<>>
  THEN /\ lines' = [lines EXCEPT ![p] = LinesOf(Head(parts[p]))]
       /\ parts' = [parts EXCEPT ![p] = Tail(parts[p])]
  ELSE /\ lines' = [lines EXCEPT ![p] = rest]
       /\ parts' = parts

AtLine(p) == pc[p] = "parts" /\ lines[p] # <<>>
Line(p) == Head(lines[p])
AtData(p, kind) == AtLine(p) /\ IsDataLine(Line(p)) /\ KindOf(Line(p)) = kind

Dispatch(p) ==
  dispatched' = [dispatched EXCEPT ![p] = Append(@, PayloadRaw(Line(p)))]

\* the locals of a call that is waiting on fetch
OpenSession(p) ==
  /\ pc' = [pc EXCEPT ![p] = "fetch"]
  /\ UNCHANGED <<wire, buf, parts, lines, finished, stream, dispatched>>

\* finally { setAnalyzing(false) / setExporting(false) }: the call returns
\* and its locals are gone
CloseSession(p) ==
  /\ SetBusy(p, FALSE)
  /\ pc' = [pc EXCEPT ![p] = "idle"]
  /\ wire' = [wire EXCEPT ![p] = <<>>]
  /\ buf' = [buf EXCEPT ![p] = <<>>]
  /\ parts' = [parts EXCEPT ![p] = <<>>]
  /\ lines' = [lines EXCEPT ![p] = <<>>]
  /\ finished' = [finished EXCEPT ![p] = FALSE]
  /\ stream' = [stream EXCEPT ![p] = <<>>]
  /\ dispatched' = [dispatched EXCEPT ![p] = <<>>]

Init ==
  /\ centerId \in {"", "center1"}
  /\ ocrFiles = <<>>
  /\ logs = <<>>
  /\ response = JNull
  /\ finalLinks = <<>>
  /\ error = NoError
  /\ analyzing = FALSE
  /\ exporting = FALSE
  /\ streamingReceivedRef = FALSE
  /\ pc = [p \in Phases |-> "idle"]
  /\ wire = [p \in Phases |-> <<>>]
  /\ buf = [p \in Phases |-> <<>>]
  /\ parts = [p \in Phases |-> <<>>]
  /\ lines = [p \in Phases |-> <<>>]
  /\ finished = [p \in Phases |-> FALSE]
  /\ stream = [p \in Phases |-> <<>>]
  /\ dispatched = [p \in Phases |-> <<>>]
  /\ exports = 0

(***************************************************************************)
(* File selection.                                                         *)
(***************************************************************************)
handleAddOcr ==
  /\ Quiescent
  /\ Len(ocrFiles) < MaxFiles
  /\ ocrFiles' = Append(ocrFiles, "file")
  /\ UNCHANGED <<centerId, uiVars, streamingReceivedRef, sessVars, exports>>

handleRemoveOcr ==
  /\ Quiescent
  /\ \E index \in 1..Len(ocrFiles) :
       ocrFiles' = [i \in 1..(Len(ocrFiles) - 1) |->
                      IF i < index THEN ocrFiles[i] ELSE ocrFiles[i + 1]]
  /\ UNCHANGED <<centerId, uiVars, streamingReceivedRef, sessVars, exports>>

(***************************************************************************)
(* runAnalyze up to its first await.                                       *)
(***************************************************************************)
\* runAnalyze without the check of ocrFiles.length
runAnalyzeNoFileCheck ==
  IF centerId = ""
  THEN /\ error' = ErrNoCenter
       /\ UNCHANGED <<logs, response, finalLinks, analyzing, exporting,
                      sessVars, exports>>
  ELSE /\ error' = NoError
       /\ analyzing' = TRUE
       /\ response' = JNull
       /\ finalLinks' = <<>>
       /\ logs' = <<LogStartAnalyze>>
       /\ exporting' = exporting
       /\ exports' = 0
       /\ OpenSession("A")

\* runAnalyze without setFinalLinks([])
runAnalyzeKeepLinks ==
  IF centerId = ""
  THEN /\ error' = ErrNoCenter
       /\ UNCHANGED <<logs, response, finalLinks, analyzing, exporting,
                      sessVars, exports>>
  ELSE IF Len(ocrFiles) = 0
  THEN /\ error' = ErrNoFiles
       /\ UNCHANGED <<logs, response, finalLinks, analyzing, exporting,
                      sessVars, exports>>
  ELSE /\ error' = NoError
       /\ analyzing' = TRUE
       /\ response' = JNull
       /\ finalLinks' = finalLinks
       /\ logs' = <<LogStartAnalyze>>
       /\ exporting' = exporting
       /\ exports' = 0
       /\ OpenSession("A")

runAnalyze ==
  IF centerId = ""
  THEN /\ error' = ErrNoCenter
       /\ UNCHANGED <<logs, response, finalLinks, analyzing, exporting,
                      sessVars, exports>>
  ELSE IF Len(ocrFiles) = 0
  THEN /\ error' = ErrNoFiles
       /\ UNCHANGED <<logs, response, finalLinks, analyzing, exporting,
                      sessVars, exports>>
  ELSE /\ error' = NoError
       /\ analyzing' = TRUE
       /\ response' = JNull
       /\ finalLinks' = <<>>
       /\ logs' = <<LogStartAnalyze>>
       /\ exporting' = exporting
       /\ exports' = 0
       /\ OpenSession("A")

\* the analyze button without disabled={analyzing}
ClickAnalyzeEnabled ==
  /\ Quiescent
  /\ runAnalyze
  /\ UNCHANGED <<centerId, ocrFiles, streamingReceivedRef>>

\* the analyze button: onClick={runAnalyze} disabled={analyzing}
ClickAnalyze ==
  /\ Quiescent
  /\ ~analyzing
  /\ runAnalyze
  /\ UNCHANGED <<centerId, ocrFiles, streamingReceivedRef>>

(***************************************************************************)
(* runExport up to its first await.                                        *)
(***************************************************************************)
\* Object.values(response.maker_cds ?? {}).some((codes) => codes.length)
canExport ==
  /\ response.t # "null"
  /\ "maker_cds" \in DOMAIN response.o
  /\ \E m \in DOMAIN response.o.maker_cds : Len(response.o.maker_cds[m]) > 0

\* runExport with only the !response half of its check
runExportNoCodesCheck ==
  IF response.t = "null"
  THEN /\ error' = ErrNoResult
       /\ UNCHANGED <<logs, response, finalLinks, analyzing, exporting,
                      sessVars, exports>>
  ELSE /\ exports < MaxExport
       /\ exports' = exports + 1
       /\ error' = NoError
       /\ exporting' = TRUE
       /\ logs' = Append(logs, LogStartExport)
       /\ UNCHANGED <<response, finalLinks, analyzing>>
       /\ OpenSession("E")

\* the logs only grow between two analyze calls: exports caps them
runExport ==
  IF response.t = "null" \/ ~canExport
  THEN /\ error' = ErrNoResult
       /\ UNCHANGED <<logs, response, finalLinks, analyzing, exporting,
                      sessVars, exports>>
  ELSE /\ exports < MaxExport
       /\ exports' = exports + 1
       /\ error' = NoError
       /\ exporting' = TRUE
       /\ logs' = Append(logs, LogStartExport)
       /\ UNCHANGED <<response, finalLinks, analyzing>>
       /\ OpenSession("E")

\* the export button: onClick={runExport} disabled={!canExport || exporting}
ClickExport ==
  /\ Quiescent
  /\ canExport /\ ~exporting
  /\ runExport
  /\ UNCHANGED <<centerId, ocrFiles, streamingReceivedRef>>

(***************************************************************************)
(* The transport: the response to fetch, and reader.read().                *)
(***************************************************************************)
\* Catch with the log panel cleared before the error line is pushed
CatchClearing(p, message) ==
  /\ error' = message
  /\ logs' = <<IF p = "A" THEN LogErrAnalyze ELSE LogErrExport>>
  /\ CloseSession(p)
  /\ UNCHANGED <<response, finalLinks>>

\* catch (err) { setError(message); pushLog(...) } finally { setBusy(false) }
Catch(p, message) ==
  /\ error' = message
  /\ logs' = Append(logs, IF p = "A" THEN LogErrAnalyze ELSE LogErrExport)
  /\ CloseSession(p)
  /\ UNCHANGED <<response, finalLinks>>

\* fetch rejects, or res.ok and res.body has no reader
FetchFail(p) ==
  /\ Quiescent
  /\ pc[p] = "fetch"
  /\ \E message \in {ErrNetwork, ErrNoStream} : Catch(p, message)
  /\ UNCHANGED <<centerId, ocrFiles, streamingReceivedRef, exports>>

\* !res.ok: the function waits for res.text()
FetchStatus(p) ==
  /\ Quiescent
  /\ pc[p] = "fetch"
  /\ pc' = [pc EXCEPT ![p] = "text"]
  /\ UNCHANGED <<centerId, ocrFiles, uiVars, streamingReceivedRef, wire, buf,
                 parts, lines, finished, stream, dispatched, exports>>

\* StatusText with the result dropped on the way out
StatusTextDropping(p) ==
  /\ Quiescent
  /\ pc[p] = "text"
  /\ error' = ErrStatus
  /\ logs' = Append(logs, IF p = "A" THEN LogErrAnalyze ELSE LogErrExport)
  /\ response' = JNull
  /\ finalLinks' = finalLinks
  /\ CloseSession(p)
  /\ UNCHANGED <<centerId, ocrFiles, streamingReceivedRef, exports>>

\* res.text() resolves and the status error is thrown, or it rejects
StatusText(p) ==
  /\ Quiescent
  /\ pc[p] = "text"
  /\ \E message \in {ErrStatus, ErrNetwork} : Catch(p, message)
  /\ UNCHANGED <<centerId, ocrFiles, streamingReceivedRef, exports>>

\* res.ok with a readable body; the loop reaches its first reader.read()
FetchOk(p, bodies) ==
  /\ Quiescent
  /\ pc[p] = "fetch"
  /\ \E body \in bodies :
       /\ wire' = [wire EXCEPT ![p] = body]
       /\ stream' = [stream EXCEPT ![p] = body]
  /\ pc' = [pc EXCEPT ![p] = "read"]
  /\ buf' = [buf EXCEPT ![p] = <<>>]
  /\ finished' = [finished EXCEPT ![p] = FALSE]
  /\ UNCHANGED <<centerId, ocrFiles, uiVars, streamingReceivedRef, parts,
                 lines, dispatched, exports>>

\* reader.read() rejects
ReadFail(p) ==
  /\ Quiescent
  /\ pc[p] = "read"
  /\ Catch(p, ErrNetwork)
  /\ UNCHANGED <<centerId, ocrFiles, streamingReceivedRef, exports>>

\* ReadDone with the text left in buf pushed to the log
ReadDoneFlushing(p) ==
  /\ Quiescent
  /\ pc[p] = "read"
  /\ wire[p] = <<>>
  /\ logs' = IF buf[p] = <<>> THEN logs ELSE Append(logs, LogRaw(buf[p]))
  /\ CloseSession(p)
  /\ UNCHANGED <<centerId, ocrFiles, response, finalLinks, error,
                 streamingReceivedRef, exports>>

\* ReadDone with the completion line pushed as if "done" had come
ReadDoneCompleting(p) ==
  /\ Quiescent
  /\ pc[p] = "read"
  /\ wire[p] = <<>>
  /\ logs' = Append(logs, IF p = "A" THEN LogDoneAnalyze ELSE LogDoneExport)
  /\ CloseSession(p)
  /\ UNCHANGED <<centerId, ocrFiles, response, finalLinks, error,
                 streamingReceivedRef, exports>>

\* reader.read() returns {done: true}: break, then finally
ReadDone(p) ==
  /\ Quiescent
  /\ pc[p] = "read"
  /\ wire[p] = <<>>
  /\ CloseSession(p)
  /\ UNCHANGED <<centerId, ocrFiles, logs, response, finalLinks, error,
                 streamingReceivedRef, exports>>

\* the lengths a chunk can have: any, or only up to the end of a frame
AnyCut(p) == 1..Len(wire[p])
FrameCut(p) ==
  {k \in 1..Len(wire[p]) : k >= 2 /\ wire[p][k - 1] = NL /\ wire[p][k] = NL}

\* reader.read() returns a chunk: buf += chunk; parts = buf.split("\n\n");
\* buf = parts.pop(); the loop over parts starts
ReadChunk(p, cuts) ==
  /\ Quiescent
  /\ pc[p] = "read"
  /\ \E k \in cuts :
       LET text == buf[p] \o SubSeq(wire[p], 1, k)
           split == SplitFrames(text)
           ps == SubSeq(split, 1, Len(split) - 1)
       IN /\ wire' = [wire EXCEPT ![p] = SubSeq(wire[p], k + 1, Len(wire[p]))]
          /\ buf' = [buf EXCEPT ![p] = split[Len(split)]]
          /\ IF ps = <<>>
             THEN /\ pc' = pc
                  /\ UNCHANGED <<parts, lines>>
             ELSE /\ pc' = [pc EXCEPT ![p] = "parts"]
                  /\ parts' = [parts EXCEPT ![p] = Tail(ps)]
                  /\ lines' = [lines EXCEPT ![p] = LinesOf(Head(ps))]
  /\ UNCHANGED <<centerId, ocrFiles, uiVars, streamingReceivedRef, finished,
                 stream, dispatched, exports>>

\* the chunk's parts are exhausted: while (!finished) either reads on or
\* falls through to finally
LoopExit(p) ==
  /\ pc[p] = "parts"
  /\ lines[p] = <<>>
  /\ IF finished[p]
     THEN CloseSession(p)
     ELSE /\ pc' = [pc EXCEPT ![p] = "read"]
          /\ UNCHANGED <<analyzing, exporting, wire, buf, parts, lines,
                         finished, stream, dispatched>>
  /\ UNCHANGED <<centerId, ocrFiles, logs, response, finalLinks, error,
                 streamingReceivedRef, exports>>

(***************************************************************************)
(* One line of a frame.                                                    *)
(***************************************************************************)
\* SkipLine with the comment text pushed to the log
SkipLineLogged(p) ==
  /\ AtLine(p)
  /\ ~IsDataLine(Line(p))
  /\ logs' = Append(logs, LogRaw(Line(p)))
  /\ SetCursor(p, Tail(lines[p]))
  /\ UNCHANGED <<centerId, ocrFiles, response, finalLinks, error, analyzing,
                 exporting, streamingReceivedRef, pc, wire, buf, finished,
                 stream, dispatched, exports>>

\* a ":" comment, or a line that does not start with "data:": continue
SkipLine(p) ==
  /\ AtLine(p)
  /\ ~IsDataLine(Line(p))
  /\ SetCursor(p, Tail(lines[p]))
  /\ UNCHANGED <<centerId, ocrFiles, uiVars, streamingReceivedRef, pc, wire,
                 buf, finished, stream, dispatched, exports>>

\* HandleRaw with the parse error escalated to the error message
HandleRawEscalated(p) ==
  /\ AtData(p, "raw")
  /\ logs' = Append(logs, LogRaw(PayloadRaw(Line(p))))
  /\ error' = "Unexpected token"
  /\ Dispatch(p)
  /\ SetCursor(p, Tail(lines[p]))
  /\ UNCHANGED <<centerId, ocrFiles, response, finalLinks, analyzing,
                 exporting, streamingReceivedRef, pc, wire, buf, finished,
                 stream, exports>>

\* catch of JSON.parse: pushLog(`[BE] ${payloadRaw}`)
HandleRaw(p) ==
  /\ AtData(p, "raw")
  /\ logs' = Append(logs, LogRaw(PayloadRaw(Line(p))))
  /\ Dispatch(p)
  /\ SetCursor(p, Tail(lines[p]))
  /\ UNCHANGED <<centerId, ocrFiles, response, finalLinks, error, analyzing,
                 exporting, streamingReceivedRef, pc, wire, buf, finished,
                 stream, exports>>

\* HandleDbg without streamingReceivedRef.current = true
HandleDbgNoRef(p) ==
  /\ AtData(p, "dbg")
  /\ logs' = Append(logs, LogBE(StringOf(DataOf(Line(p)))))
  /\ Dispatch(p)
  /\ SetCursor(p, Tail(lines[p]))
  /\ UNCHANGED <<centerId, ocrFiles, response, finalLinks, error, analyzing,
                 exporting, streamingReceivedRef, pc, wire, buf, finished,
                 stream, exports>>

\* HandleDbg with the line put in front of the log
HandleDbgPrepend(p) ==
  /\ AtData(p, "dbg")
  /\ streamingReceivedRef' = TRUE
  /\ logs' = <<LogBE(StringOf(DataOf(Line(p))))>> \o logs
  /\ Dispatch(p)
  /\ SetCursor(p, Tail(lines[p]))
  /\ UNCHANGED <<centerId, ocrFiles, response, finalLinks, error, analyzing,
                 exporting, pc, wire, buf, finished, stream, exports>>

\* ev === "dbg"
HandleDbg(p) ==
  /\ AtData(p, "dbg")
  /\ streamingReceivedRef' = TRUE
  /\ logs' = Append(logs, LogBE(StringOf(DataOf(Line(p)))))
  /\ Dispatch(p)
  /\ SetCursor(p, Tail(lines[p]))
  /\ UNCHANGED <<centerId, ocrFiles, response, finalLinks, error, analyzing,
                 exporting, pc, wire, buf, finished, stream, exports>>

\* ev === "done": pushLog, finished = true, break out of the loop over lines
HandleDone(p) ==
  /\ AtData(p, "done")
  /\ logs' = Append(logs, IF p = "A" THEN LogDoneAnalyze ELSE LogDoneExport)
  /\ finished' = [finished EXCEPT ![p] = TRUE]
  /\ Dispatch(p)
  /\ SetCursor(p, <<>>)
  /\ UNCHANGED <<centerId, ocrFiles, response, finalLinks, error, analyzing,
                 exporting, streamingReceivedRef, pc, wire, buf, stream,
                 exports>>

\* HandleOther with the line written without the kind
HandleOtherUntagged(p) ==
  /\ AtLine(p) /\ IsDataLine(Line(p))
  /\ KindOf(Line(p)) \notin {"raw", "dbg", "result", "done"}
  /\ logs' = Append(logs, LogRaw(Stringify(DataOf(Line(p)))))
  /\ Dispatch(p)
  /\ SetCursor(p, Tail(lines[p]))
  /\ UNCHANGED <<centerId, ocrFiles, response, finalLinks, error, analyzing,
                 exporting, streamingReceivedRef, pc, wire, buf, finished,
                 stream, exports>>

\* any other ev: pushLog(`[BE:${String(ev)}] ${JSON.stringify(data)}`)
HandleOther(p) ==
  /\ AtLine(p) /\ IsDataLine(Line(p))
  /\ KindOf(Line(p)) \notin {"raw", "dbg", "result", "done"}
  /\ logs' = Append(logs, LogGeneric(KindOf(Line(p)), DataOf(Line(p))))
  /\ Dispatch(p)
  /\ SetCursor(p, Tail(lines[p]))
  /\ UNCHANGED <<centerId, ocrFiles, response, finalLinks, error, analyzing,
                 exporting, streamingReceivedRef, pc, wire, buf, finished,
                 stream, exports>>

\* debug_logs of a result payload: the string elements, each as `[BE] ${ln}`,
\* appended by setLogs only while no dbg event has set the ref
RECURSIVE BackendLines(_)
BackendLines(ls) ==
  IF ls = <<>> THEN <<>>
  ELSE <<Plain(<<"[BE] ", Head(ls)>>)>> \o BackendLines(Tail(ls))

FinalLogs(data) ==
  IF ~streamingReceivedRef /\ "debug_logs" \in DOMAIN data.o
  THEN BackendLines(data.o.debug_logs)
  ELSE <<>>

\* the links runAnalyze adds for a result payload
AnalyzeLinks(data) ==
  (IF Truthy(data, "ocr_snapshot_url")
   THEN <<[name |-> NameOcr, url |-> data.o.ocr_snapshot_url]>> ELSE <<>>)
  \o
  (IF Truthy(data, "output_spreadsheet_url")
   THEN <<[name |-> NameOutput, url |-> data.o.output_spreadsheet_url]>>
   ELSE <<>>)

\* ev === "result" in runAnalyze
AnalyzeResult ==
  /\ AtData("A", "result")
  /\ LET data == DataOf(Line("A"))
     IN IF IsObject(data)
        THEN /\ response' = data
             /\ finalLinks' = finalLinks \o AnalyzeLinks(data)
             /\ logs' = logs \o FinalLogs(data)
        ELSE UNCHANGED <<response, finalLinks, logs>>
  /\ Dispatch("A")
  /\ SetCursor("A", Tail(lines["A"]))
  /\ UNCHANGED <<centerId, ocrFiles, error, analyzing, exporting,
                 streamingReceivedRef, pc, wire, buf, finished, stream,
                 exports>>

\* { ...prev, output_spreadsheet_url: url }
WithOutputUrl(prev, url) ==
  JObj([f \in DOMAIN prev.o \cup {"output_spreadsheet_url"} |->
          IF f = "output_spreadsheet_url" THEN url ELSE prev.o[f]])

\* prev.some((item) => item.url === url) ? prev : [...prev, {name, url}]
AddLinkOnce(prev, name, url) ==
  IF \E i \in 1..Len(prev) : prev[i].url = url
  THEN prev
  ELSE Append(prev, [name |-> name, url |-> url])

\* ev === "result" in runExport
ExportResult ==
  /\ AtData("E", "result")
  /\ LET data == DataOf(Line("E"))
     IN IF IsObject(data)
        THEN /\ IF Truthy(data, "output_spreadsheet_url")
                THEN /\ response' =
                          IF response.t # "null"
                          THEN WithOutputUrl(response,
                                             data.o.output_spreadsheet_url)
                          ELSE response
                     /\ finalLinks' =
                          AddLinkOnce(finalLinks, NameOutput,
                                      data.o.output_spreadsheet_url)
                ELSE UNCHANGED <<response, finalLinks>>
             /\ logs' = logs \o FinalLogs(data)
        ELSE UNCHANGED <<response, finalLinks, logs>>
  /\ Dispatch("E")
  /\ SetCursor("E", Tail(lines["E"]))
  /\ UNCHANGED <<centerId, ocrFiles, error, analyzing, exporting,
                 streamingReceivedRef, pc, wire, buf, finished, stream,
                 exports>>

(***************************************************************************)
(* The whole system from construction: both buttons, both sessions, which  *)
(* may overlap, transport failures, and a network that delivers whole      *)
(* frames.                                                                 *)
(***************************************************************************)
Next ==
  \/ handleAddOcr
  \/ handleRemoveOcr
  \/ ClickAnalyze
  \/ ClickExport
  \/ FetchOk("A", AnalyzeBodies)
  \/ FetchOk("E", ExportBodies)
  \/ \E p \in Phases :
       \/ FetchFail(p)
       \/ FetchStatus(p)
       \/ StatusText(p)
       \/ ReadFail(p)
       \/ ReadDone(p)
       \/ ReadChunk(p, FrameCut(p))
       \/ LoopExit(p)
       \/ SkipLine(p)
       \/ HandleRaw(p)
       \/ HandleDbg(p)
       \/ HandleDone(p)
       \/ HandleOther(p)
  \/ AnalyzeResult
  \/ ExportResult

Spec == Init /\ [][Next]_vars

(***************************************************************************)
(* Both buttons and both sessions, with the files already selected, a      *)
(* transport that answers and a loop that runs.                            *)
(* A callback that has started runs to its end (weak fairness of the loop  *)
(* steps).  Every pending await is settled some time: the request is       *)
(* answered, the reader returns the next chunk, the end of the body or an  *)
(* error; a settled await waits only for the callback of the other phase   *)
(* that is running, so its step is fair in the strong sense.               *)
(***************************************************************************)
InitLive ==
  /\ centerId = "center1"
  /\ ocrFiles = <<"file">>
  /\ logs = <<>>
  /\ response = JNull
  /\ finalLinks = <<>>
  /\ error = NoError
  /\ analyzing = FALSE
  /\ exporting = FALSE
  /\ streamingReceivedRef = FALSE
  /\ pc = [p \in Phases |-> "idle"]
  /\ wire = [p \in Phases |-> <<>>]
  /\ buf = [p \in Phases |-> <<>>]
  /\ parts = [p \in Phases |-> <<>>]
  /\ lines = [p \in Phases |-> <<>>]
  /\ finished = [p \in Phases |-> FALSE]
  /\ stream = [p \in Phases |-> <<>>]
  /\ dispatched = [p \in Phases |-> <<>>]
  /\ exports = 0

\* the awaits of phase p being settled
Transport(p) ==
  \/ FetchOk(p, IF p = "A" THEN AnalyzeBodies ELSE ExportBodies)
  \/ FetchFail(p)
  \/ FetchStatus(p)
  \/ StatusText(p)
  \/ ReadFail(p)
  \/ ReadDone(p)
  \/ ReadChunk(p, FrameCut(p))

\* the callback of phase p going on with the chunk it was given
Loop(p) ==
  \/ LoopExit(p)
  \/ SkipLine(p)
  \/ HandleRaw(p)
  \/ HandleDbg(p)
  \/ HandleDone(p)
  \/ HandleOther(p)
  \/ p = "A" /\ AnalyzeResult
  \/ p = "E" /\ ExportResult

NextLive ==
  \/ ClickAnalyze
  \/ ClickExport
  \/ \E p \in Phases : Transport(p) \/ Loop(p)

SpecLive ==
  /\ InitLive
  /\ [][NextLive]_vars
  /\ \A p \in Phases : WF_vars(Loop(p)) /\ SF_vars(Transport(p))

(***************************************************************************)
(* One session of each phase with every frame the protocol knows and a     *)
(* network that cuts the body anywhere: the first analyze, with the files  *)
(* already selected, and an export started from the state in which an      *)
(* analyze whose body was one result and "done" leaves the console.        *)
(***************************************************************************)
InitStream ==
  /\ centerId = "center1"
  /\ ocrFiles = <<"file">>
  /\ logs = <<>>
  /\ response = JNull
  /\ finalLinks = <<>>
  /\ error = NoError
  /\ analyzing = FALSE
  /\ exporting = FALSE
  /\ streamingReceivedRef = FALSE
  /\ pc = [p \in Phases |-> "idle"]
  /\ wire = [p \in Phases |-> <<>>]
  /\ buf = [p \in Phases |-> <<>>]
  /\ parts = [p \in Phases |-> <<>>]
  /\ lines = [p \in Phases |-> <<>>]
  /\ finished = [p \in Phases |-> FALSE]
  /\ stream = [p \in Phases |-> <<>>]
  /\ dispatched = [p \in Phases |-> <<>>]
  /\ exports = 0

Analyzed ==
  /\ ~analyzing
  /\ response = JObj(ObjOrder)
  /\ logs = <<LogStartAnalyze>> \o BackendLines(ObjOrder.debug_logs)
              \o <<LogDoneAnalyze>>

NextStream ==
  \/ logs = <<>> /\ ClickAnalyze
  \/ Analyzed /\ ClickExport
  \/ FetchOk("A", Bodies(AnalyzeStreamFrames) \cup {ScenarioA}
                    \cup Dangling(AnalyzeStreamFrames))
  \/ FetchOk("E", Bodies(ExportStreamFrames) \cup Dangling(ExportStreamFrames))
  \/ \E p \in Phases :
       \/ ReadDone(p)
       \/ ReadChunk(p, AnyCut(p))
       \/ LoopExit(p)
       \/ SkipLine(p)
       \/ HandleRaw(p)
       \/ HandleDbg(p)
       \/ HandleDone(p)
       \/ HandleOther(p)
  \/ AnalyzeResult
  \/ ExportResult

SpecStream == InitStream /\ [][NextStream]_vars

(***************************************************************************)
(* runExport called as a function, whatever the export button shows: the   *)
(* console holds what one silent analysis has left, with no result, with a *)
(* result without codes or with a result that can be exported.             *)
(***************************************************************************)
ExportInputs == {JNull, JObj(ObjA), JObj(ObjNoCodes), JObj(ObjOrder)}

InitExport ==
  /\ centerId = "center1"
  /\ ocrFiles = <<"file">>
  /\ response \in ExportInputs
  /\ logs = <<LogStartAnalyze>>
             \o (IF "debug_logs" \in DOMAIN response.o
                 THEN BackendLines(response.o.debug_logs) ELSE <<>>)
             \o <<LogDoneAnalyze>>
  /\ finalLinks = AnalyzeLinks(response)
  /\ error = NoError
  /\ analyzing = FALSE
  /\ exporting = FALSE
  /\ streamingReceivedRef = FALSE
  /\ pc = [p \in Phases |-> "idle"]
  /\ wire = [p \in Phases |-> <<>>]
  /\ buf = [p \in Phases |-> <<>>]
  /\ parts = [p \in Phases |-> <<>>]
  /\ lines = [p \in Phases |-> <<>>]
  /\ finished = [p \in Phases |-> FALSE]
  /\ stream = [p \in Phases |-> <<>>]
  /\ dispatched = [p \in Phases |-> <<>>]
  /\ exports = 0

\* the bodies an export call is answered with: those of the whole system,
\* one with a comment frame, a line that is not JSON and a progress event,
\* and a streamed export that ends with "done"
ExportCallBodies ==
  ExportBodies
  \cup {WireText(<<KeepAliveFrame, TwoDataFrame(TxtNotJson, TxtProgress),
                   DataFrame(TxtDone)>>),
        WireText(<<CommentedFrame(TxtDbg), DataFrame(TxtResExport),
                   DataFrame(TxtDone)>>)}

\* runExport() while no export session is running
CallExport ==
  /\ Quiescent
  /\ pc["E"] = "idle"
  /\ runExport
  /\ UNCHANGED <<centerId, ocrFiles, streamingReceivedRef>>

NextExport ==
  \/ CallExport
  \/ FetchOk("E", ExportCallBodies)
  \/ FetchFail("E")
  \/ FetchStatus("E")
  \/ StatusText("E")
  \/ ReadFail("E")
  \/ ReadDone("E")
  \/ ReadChunk("E", AnyCut("E"))
  \/ LoopExit("E")
  \/ SkipLine("E")
  \/ HandleRaw("E")
  \/ HandleDbg("E")
  \/ HandleDone("E")
  \/ HandleOther("E")
  \/ ExportResult

SpecExport == InitExport /\ [][NextExport]_vars

(***************************************************************************)
(* Properties.                                                             *)
(***************************************************************************)
\* the step on which a session returns without an exception: the reader is
\* exhausted or the loop has seen finished
Ends(p) == pc[p] \in {"read", "parts"} /\ pc'[p] = "idle" /\ logs' = logs
Kinds(p) == [i \in 1..Len(dispatched[p]) |-> RawKind(dispatched[p][i])]
SawDbg(p) == \E i \in 1..Len(dispatched[p]) : Kinds(p)[i] = "dbg"
HasLogs(data) == "debug_logs" \in DOMAIN data.o /\ data.o.debug_logs # <<>>

\* what the loops dispatch when the lines ls of one frame are looped over
RECURSIVE FrameEvents(_)
FrameEvents(ls) ==
  IF ls = <<>> THEN <<>>
  ELSE IF ~IsDataLine(Head(ls)) THEN FrameEvents(Tail(ls))
  ELSE IF KindOf(Head(ls)) = "done" THEN <<PayloadRaw(Head(ls))>>
  ELSE <<PayloadRaw(Head(ls))>> \o FrameEvents(Tail(ls))

RECURSIVE PartsEvents(_)
PartsEvents(ps) ==
  IF ps = <<>> THEN <<>>
  ELSE FrameEvents(LinesOf(Head(ps))) \o PartsEvents(Tail(ps))

\* the events of a body that arrives as one chunk
OneChunkEvents(body) ==
  LET split == SplitFrames(body)
  IN PartsEvents(SubSeq(split, 1, Len(split) - 1))

\* C1: chunk-boundary independence: whichever way the body was cut into
\* chunks, a session that runs to its end has dispatched the events that the
\* same body dispatches when it arrives as one chunk.
C1_ChunkIndependence ==
  [][\A p \in Phases :
       Ends(p) => dispatched[p] = OneChunkEvents(stream[p])]_vars

\* C2: once a session has handled a "done" event it dispatches nothing
\* more: a "done" is never followed by another dispatched event.
C2_NothingAfterDone ==
  \A p \in Phases :
    \A i \in 1..Len(dispatched[p]) :
      Kinds(p)[i] = "done" => i = Len(dispatched[p])

\* C3: the final-link collection never holds two entries with the same url.
C3_UniqueUrls ==
  \A i, j \in 1..Len(finalLinks) :
    i # j => finalLinks[i].url # finalLinks[j].url

\* a payload's fields laid over the fields of the existing result
MergeOver(prev, data) ==
  IF prev.t = "null" THEN data
  ELSE JObj([f \in DOMAIN prev.o \cup DOMAIN data.o |->
               IF f \in DOMAIN data.o THEN data.o[f] ELSE prev.o[f]])

\* C4: merge law: handling a result event with an object payload adopts the
\* payload when the result is absent and otherwise merges the payload's
\* fields over the existing result, keeping the fields it does not carry.
C4_MergeLaw ==
  [][\A p \in Phases :
       (AtData(p, "result") /\ DataOf(Line(p)).t = "obj")
         => response' = MergeOver(response, DataOf(Line(p)))]_vars

\* C5: a result event handled after a "dbg" event of the same session
\* appends nothing to the logs, whatever debug_logs it carries.
C5_NoFinalLogsAfterDbg ==
  [][\A p \in Phases :
       (AtData(p, "result") /\ SawDbg(p)) => logs' = logs]_vars

\* C5 witness: a session has handled a dbg event and, after it, a result
\* event that carries a non-empty debug_logs array.
C5_Witness ==
  \E p \in Phases :
    \E i, j \in 1..Len(dispatched[p]) :
      /\ i < j
      /\ Kinds(p)[i] = "dbg"
      /\ Kinds(p)[j] = "result"
      /\ HasLogs(RawData(dispatched[p][j]))

\* C6: a result event of a session that has handled no "dbg" event appends
\* each element of its debug_logs array as one backend-tagged line, in
\* array order, whatever earlier sessions streamed.
C6_FinalLogsPerSession ==
  [][\A p \in Phases :
       (AtData(p, "result") /\ ~SawDbg(p) /\ HasLogs(DataOf(Line(p))))
         => logs' = logs \o BackendLines(DataOf(Line(p)).o.debug_logs)]_vars

\* C7: each frame yields at most one event: a session never has dispatched
\* more events than the frames its body holds.
C7_OneEventPerFrame ==
  \A p \in Phases :
    Len(dispatched[p]) <= Len(SplitFrames(stream[p])) - 1

\* the lines a callback still has to loop over in the current chunk
RECURSIVE LinesOfParts(_)
LinesOfParts(ps) ==
  IF ps = <<>> THEN <<>> ELSE LinesOf(Head(ps)) \o LinesOfParts(Tail(ps))
Pending(p) == lines[p] \o LinesOfParts(parts[p])

\* C8: a data line that is not valid JSON appends exactly one log line
\* holding the raw text, sets no error, leaves result, final links and the
\* busy flags alone, and the session stays in its loop with every line and
\* frame that follows still to be dispatched.
C8_RawLineIsLogged ==
  [][\A p \in Phases :
       AtData(p, "raw")
         => /\ logs' = Append(logs, Stamped(<<"[BE] ">> \o PayloadRaw(Line(p))))
            /\ UNCHANGED <<error, response, finalLinks, analyzing, exporting,
                           finished, wire, buf>>
            /\ pc'[p] = "parts"
            /\ Pending(p)' = Tail(Pending(p))]_vars

\* C8 witness: a session has dispatched a line that is not JSON and then
\* the event of a later frame, and no error is set.
C8_Witness ==
  \E p \in Phases :
    /\ error = NoError
    /\ \E i \in 1..Len(dispatched[p]) :
         /\ Kinds(p)[i] = "raw"
         /\ i < Len(dispatched[p])
    /\ \E j \in 1..Len(logs) : logs[j] = Stamped(<<"[BE] ", TxtNotJson>>)

\* C9: a comment line produces no event and no log line: logs, result,
\* final links and the streamed-log flag are what they were before it.
C9_CommentIsSilent ==
  [][\A p \in Phases :
       (AtLine(p) /\ StartsWith(Line(p), Colon))
         => UNCHANGED <<logs, response, finalLinks, streamingReceivedRef,
                        dispatched, error>>]_vars

\* C9 witness: a session whose body was one comment-only frame has read
\* all of it with nothing dispatched and only the start line in the logs.
C9_Witness ==
  /\ stream["A"] = WireText(<<KeepAliveFrame>>)
  /\ pc["A"] = "read"
  /\ wire["A"] = <<>>
  /\ buf["A"] = <<>>
  /\ dispatched["A"] = <<>>
  /\ logs = <<LogStartAnalyze>>

\* C10: with an empty center id or no OCR file no step sends an analyze
\* request, and the step that sets the validation error leaves logs,
\* result, final links, both busy flags and both sessions alone.
C10_AnalyzeValidation ==
  [][(centerId = "" \/ ocrFiles = <<>>)
       => /\ ~(pc["A"] = "idle" /\ pc'["A"] = "fetch")
          /\ (error' \in {ErrNoCenter, ErrNoFiles} /\ error' # error)
               => UNCHANGED <<logs, response, finalLinks, analyzing,
                              exporting, sessVars, exports>>]_vars

\* C10 witness: analyze was rejected for want of files after an earlier
\* session had left logs, a result and links, which are still there.
C10_Witness ==
  /\ error = ErrNoFiles
  /\ ocrFiles = <<>>
  /\ logs # <<>>
  /\ response.t = "obj"
  /\ finalLinks # <<>>

\* the result has a per-maker code list with an element
HasCodes(r) ==
  /\ r.t = "obj"
  /\ "maker_cds" \in DOMAIN r.o
  /\ \E m \in DOMAIN r.o.maker_cds : r.o.maker_cds[m] # <<>>

\* C11: an export session is opened only from a state whose result exists
\* and has a non-empty per-maker code list; an export call in any other
\* state opens no session, changes nothing but the error message, and the
\* message it sets is the validation error.
C11_ExportValidation ==
  [][/\ (pc["E"] = "idle" /\ pc'["E"] = "fetch") => HasCodes(response)
     /\ (pc["E"] = "idle" /\ ~HasCodes(response))
          => /\ pc'["E"] = "idle"
             /\ error' = ErrNoResult
             /\ UNCHANGED <<logs, response, finalLinks, analyzing,
                            exporting, sessVars, exports>>]_vars

\* C11 witness: export was called on a result whose code lists are all
\* empty and was rejected, the logs of the analysis still in place.
C11_Witness ==
  /\ error = ErrNoResult
  /\ response = JObj(ObjNoCodes)
  /\ pc["E"] = "idle" /\ ~exporting
  /\ logs = <<LogStartAnalyze, LogDoneAnalyze>>

Busy(p) == IF p = "A" THEN analyzing ELSE exporting
Active(p) == pc[p] # "idle"
\* the step opens a session of phase p
Opens(p) == pc'[p] = "fetch" /\ pc[p] # "fetch"

\* C12: per-phase mutual exclusion: a phase's busy flag is set exactly
\* while its session is active, and a session of a phase is opened only
\* while that phase has no active session and its busy flag is clear.
C12_PhaseExclusion ==
  /\ [](\A p \in Phases : Busy(p) <=> Active(p))
  /\ [][\A p \in Phases : Opens(p) => ~Active(p) /\ ~Busy(p)]_vars

\* C12 witness: a later analyze session is reading its body after an
\* earlier session has streamed a dbg event and ended.
C12_Witness ==
  /\ analyzing /\ pc["A"] = "read"
  /\ ~exporting
  /\ streamingReceivedRef
  /\ dispatched["A"] = <<>>

\* C13: at no time are an analyze session and an export session active
\* together: an export session is opened only while no analyze session is
\* active, and an analyze session only while no export session is active.
C13_NoOverlap == ~(Active("A") /\ Active("E"))

IsPrefix(a, b) == Len(a) <= Len(b) /\ SubSeq(b, 1, Len(a)) = a

\* C14: every step either keeps the logs as a prefix of the new logs or is
\* an analyze invocation that passed its preconditions and leaves only the
\* start line; no other step removes, reorders or rewrites a log line.
C14_LogsAppendOnly ==
  [][\/ IsPrefix(logs, logs')
     \/ /\ Opens("A")
        /\ centerId # "" /\ ocrFiles # <<>>
        /\ logs' = <<LogStartAnalyze>>]_vars

\* C14 witness: an export failed on its transport after the analysis had
\* written its lines, and all of them are still there before the error
\* line.
C14_Witness ==
  /\ error \in {ErrStatus, ErrNoStream, ErrNetwork}
  /\ Len(logs) >= 4
  /\ logs[1] = LogStartAnalyze
  /\ logs[Len(logs)] = LogErrExport
  /\ \E i \in 2..(Len(logs) - 1) : logs[i] = LogStartExport

\* the step on which a session is given up before a body was read
Aborts(p) == pc[p] \in {"fetch", "text"} /\ pc'[p] = "idle"

\* C15: a session that ends on the response itself (a non-success status,
\* no readable body, a rejected request) has dispatched nothing; the step
\* sets a transport error message, the status message only after a
\* non-success status and the stream message only without one, appends one
\* error line to the logs as they stand, keeps result and final links, and
\* clears the busy flag of its phase and only that one.
C15_TransportAbort ==
  [][\A p \in Phases :
       Aborts(p)
         => /\ stream[p] = <<>> /\ dispatched[p] = <<>>
            /\ error' \in {ErrStatus, ErrNoStream, ErrNetwork}
            /\ error' = ErrStatus => pc[p] = "text"
            /\ error' = ErrNoStream => pc[p] = "fetch"
            /\ logs' = Append(logs, IF p = "A" THEN LogErrAnalyze
                                              ELSE LogErrExport)
            /\ UNCHANGED <<response, finalLinks, streamingReceivedRef>>
            /\ ~Busy(p)'
            /\ \A q \in Phases \ {p} : Busy(q)' = Busy(q)]_vars

\* C15 witness: an export request was answered with a non-success status;
\* the result and the lines of the analysis are still there, the error
\* line is the last one and the export flag is clear.
C15_Witness ==
  /\ error = ErrStatus
  /\ pc["E"] = "idle" /\ ~exporting
  /\ response = JObj(ObjOrder)
  /\ logs[1] = LogStartAnalyze
  /\ logs[Len(logs)] = LogErrExport
  /\ logs[Len(logs) - 1] = LogStartExport

\* C16: a result event whose payload is not an object (a string, null, an
\* array) changes nothing in either phase: logs, result, final links, the
\* streamed-log flag and the error stay, and the session goes on.
C16_NonObjectResultIgnored ==
  [][\A p \in Phases :
       (AtData(p, "result") /\ DataOf(Line(p)).t # "obj")
         => /\ UNCHANGED <<logs, response, finalLinks, streamingReceivedRef,
                           error, finished>>
            /\ pc'[p] = "parts"]_vars

\* C17: the step on which an analyze session is opened clears the error,
\* makes the result absent, empties the final links and leaves the start
\* line as the only log line, whatever these held before.
C17_AnalyzeReset ==
  [][Opens("A")
       => /\ error' = NoError
          /\ response' = JNull
          /\ finalLinks' = <<>>
          /\ logs' = <<LogStartAnalyze>>]_vars

\* C17 witness: analyze was invoked again while an export session that has
\* already handled its result, and so had added its link, is still
\* active: result, links and the earlier lines are gone.
C17_Witness ==
  /\ pc["A"] = "fetch"
  /\ Active("E")
  /\ \E i \in 1..Len(dispatched["E"]) : dispatched["E"][i] = <<TxtResExport>>
  /\ error = NoError
  /\ response = JNull
  /\ finalLinks = <<>>
  /\ logs = <<LogStartAnalyze>>

RECURSIVE IsSubSeq(_, _)
\* a is b with some elements left out
IsSubSeq(a, b) ==
  IF a = <<>> THEN TRUE
  ELSE IF b = <<>> THEN FALSE
  ELSE IF Head(a) = Head(b) THEN IsSubSeq(Tail(a), Tail(b))
  ELSE IsSubSeq(a, Tail(b))

RECURSIVE Payloads(_)
\* the payloads of the data lines among ls, in order
Payloads(ls) ==
  IF ls = <<>> THEN <<>>
  ELSE IF IsDataLine(Head(ls))
       THEN <<PayloadRaw(Head(ls))>> \o Payloads(Tail(ls))
       ELSE Payloads(Tail(ls))

\* the payloads of the frames of a body, in stream order
StreamPayloads(body) ==
  LET split == SplitFrames(body)
  IN Payloads(LinesOfParts(SubSeq(split, 1, Len(split) - 1)))

RECURSIVE EventLines(_, _, _)
\* the log lines that the events evs stand for, event by event; seen says
\* whether a dbg event came before
EventLines(p, evs, seen) ==
  IF evs = <<>> THEN <<>>
  ELSE LET e == Head(evs)
           k == RawKind(e)
           own ==
             CASE k = "raw" -> <<Stamped(<<"[BE] ">> \o e)>>
               [] k = "dbg" -> <<Stamped(<<"[BE] ", StringOf(RawData(e))>>)>>
               [] k = "result" ->
                    IF RawData(e).t = "obj" /\ ~seen /\ HasLogs(RawData(e))
                    THEN [i \in 1..Len(RawData(e).o.debug_logs) |->
                            Plain(<<"[BE] ", RawData(e).o.debug_logs[i]>>)]
                    ELSE <<>>
               [] k = "done" ->
                    <<IF p = "A" THEN LogDoneAnalyze ELSE LogDoneExport>>
               [] OTHER ->
                    <<Stamped(<<"[BE:", k, "] ">> \o Stringify(RawData(e)))>>
       IN own \o EventLines(p, Tail(evs), seen \/ k = "dbg")

\* the logs as a session of phase p finds them when it starts
LinesBefore(p) ==
  IF p = "A" THEN <<LogStartAnalyze>>
  ELSE <<LogStartAnalyze, Plain(<<"[BE] ", "l1">>), Plain(<<"[BE] ", "l2">>),
         LogDoneAnalyze, LogStartExport>>

\* C18: within a session the events are dispatched in the order of their
\* frames in the stream and the logs are the lines of these events in that
\* order; the stream dbg "step1", result {x:1}, done leaves the start line,
\* the "step1" line and the completion line, with result {x:1}.
C18_FrameOrder ==
  /\ \A p \in Phases :
       Active(p)
         => /\ IsSubSeq(dispatched[p], StreamPayloads(stream[p]))
            /\ logs = LinesBefore(p) \o EventLines(p, dispatched[p], FALSE)
  /\ (stream["A"] = ScenarioA /\ finished["A"])
       => /\ logs = <<LogStartAnalyze, Stamped(<<"[BE] ", "step1">>),
                      LogDoneAnalyze>>
          /\ response = JObj(ObjX)

\* C18 witness: the session of scenario A has handled its done event.
C18_Witness ==
  /\ stream["A"] = ScenarioA
  /\ finished["A"]
  /\ dispatched["A"] = <<<<TxtDbg>>, <<TxtResX>>, <<TxtDone>>>>
  /\ Len(logs) = 3

\* the text of a body after its last blank line
Rest(body) == SplitFrames(body)[Len(SplitFrames(body))]

\* the log line is made from the payload raw
Shows(line, raw) ==
  \/ line.text = <<"[BE] ">> \o raw
  \/ Parses(raw) /\ RawData(raw).t = "str"
       /\ line.text = <<"[BE] ", RawData(raw).s>>

\* C19: the data lines of the text that follows the last blank line of a
\* body are never dispatched and never shown in a log line, and the step
\* on which the session finds the transport ended changes neither logs,
\* result, final links, streamed-log flag nor error.
C19_DanglingTailDiscarded ==
  /\ [](\A p \in Phases :
          LET rest == Payloads(LinesOf(Rest(stream[p])))
          IN \A k \in 1..Len(rest) :
               /\ \A i \in 1..Len(dispatched[p]) : dispatched[p][i] # rest[k]
               /\ \A j \in 1..Len(logs) : ~Shows(logs[j], rest[k]))
  /\ [][\A p \in Phases :
           (pc[p] = "read" /\ wire[p] = <<>> /\ buf[p] # <<>>)
             => UNCHANGED <<logs, response, finalLinks, streamingReceivedRef,
                            error>>]_vars

\* C19 witness: the transport of an analyze session has ended with a whole
\* data line in the buffer, after an earlier frame of the body was
\* dispatched; only the earlier frame is in the logs.
C19_Witness ==
  /\ pc["A"] = "read"
  /\ wire["A"] = <<>>
  /\ buf["A"] = DataFrame(TxtTail)
  /\ dispatched["A"] = <<<<TxtProgress>>>>
  /\ Len(logs) = 2

\* the line at the head of the loop is an event of a kind other than the
\* three the loop knows
AtOtherKind(p) ==
  /\ AtLine(p) /\ IsDataLine(Line(p))
  /\ Parses(PayloadRaw(Line(p)))
  /\ KindOf(Line(p)) \notin {"dbg", "result", "done"}

IsSuffix(a, b) ==
  Len(a) <= Len(b) /\ SubSeq(b, Len(b) - Len(a) + 1, Len(b)) = a

C21_BusyUntilSessionEnds ==
  /\ [](\A p \in Phases : Busy(p) = Active(p))
  /\ [][\A p \in Phases :
           (pc[p] = "read" /\ ~Active(p)')
             => /\ ~Busy(p)'
                /\ \/ logs' = logs /\ error' = error
                   \/ /\ error' = ErrNetwork
                      /\ logs' = Append(logs, IF p = "A" THEN LogErrAnalyze
                                                        ELSE LogErrExport)]_vars
  /\ \A p \in Phases : Busy(p) ~> ~Busy(p)

\* C21 witness: an analysis whose body ended without "done" is over: the
\* flag is clear, no error is set, and the logs hold neither a completion
\* line nor an error line.
C21_Witness ==
  /\ pc["A"] = "idle" /\ ~analyzing
  /\ ~Active("E") /\ exports = 0
  /\ error = NoError
  /\ Len(logs) >= 2
  /\ logs[1] = LogStartAnalyze
  /\ \A i \in 1..Len(logs) : logs[i] \notin {LogDoneAnalyze, LogErrAnalyze}

\* C22: whenever the final links are not empty a result is present.
C22_LinksImplyResult == finalLinks # <<>> => response # JNull
====
